---- MODULE Spec2Model ----
(***************************************************************************)
(* Model of checks.d/iis.py: the IIS agent check.                          *)
(*                                                                         *)
(* Python values are modelled as tagged records (IntV, StrV, NoneV), an    *)
(* exception as the name of its class in an "exc" field ("none" when the   *)
(* call returned), and the calls made on the AgentCheck base class         *)
(* (log.warning, service_check, gauge, rate) as appends to logs.           *)
(***************************************************************************)
EXTENDS Integers, Sequences, FiniteSets, TLC

VARIABLES
    pc,             \* "idle" | "ready" (inputs drawn) | "done" (call finished)
    wmi_conns,      \* self.wmi_conns: key string -> connection handle
    opened,         \* log of wmi.WMI(...) calls; a handle is an index in it
    requested,      \* log of _get_wmi_conn calls: identity and returned handle
    in_instance,    \* argument of check
    in_batch,       \* the records the sampler yields once sampled
    in_sites,       \* argument `sites`
    in_tags,        \* argument `tags` (the caller's list object)
    in_metrics,     \* argument `wmi_metrics`
    out_metrics,    \* return value of _extract_metrics
    warnings,       \* log of self.log.warning calls
    service_checks, \* log of self.service_check calls
    submissions,    \* log of gauge / rate calls
    steps,          \* log of the collaborator calls made by check
    exc             \* exception that left the call, "none" if it returned

vars == <<pc, wmi_conns, opened, requested, in_instance, in_batch, in_sites,
          in_tags, in_metrics, out_metrics, warnings, service_checks,
          submissions, steps, exc>>

----------------------------------------------------------------------------
(* Bounds *)

MaxBatch == 2
MaxCheckBatch == 1
MaxMetrics == 2
MaxConnCalls == 3

----------------------------------------------------------------------------
(* Python values *)

IntV(n) == [t |-> "int", n |-> n, s |-> ""]
StrV(s) == [t |-> "str", n |-> 0, s |-> s]
NoneV == [t |-> "none", n |-> 0, s |-> ""]

Digits == <<"0", "1", "2", "3", "4", "5", "6", "7", "8", "9">>

IsDigit(c) == \E d \in 1..10 : Digits[d] = c

DigitVal(c) == (CHOOSE d \in 1..10 : Digits[d] = c) - 1

RECURSIVE DecimalVal(_)
DecimalVal(s) ==
    IF Len(s) = 0 THEN 0
    ELSE 10 * DecimalVal(SubSeq(s, 1, Len(s) - 1))
         + DigitVal(SubSeq(s, Len(s), Len(s)))

IsDecimal(s) ==
    /\ Len(s) > 0
    /\ \A i \in 1..Len(s) : IsDigit(SubSeq(s, i, i))

\* float(x) on the values a counter can carry: a number converts, a string
\* converts when it is a (signed) decimal literal and raises ValueError
\* otherwise, None raises TypeError.
Float(v) ==
    CASE v.t = "int" -> [exc |-> "none", val |-> v.n]
      [] v.t = "none" -> [exc |-> "TypeError", val |-> 0]
      [] v.t = "str" ->
            IF IsDecimal(v.s)
            THEN [exc |-> "none", val |-> DecimalVal(v.s)]
            ELSE IF Len(v.s) > 1 /\ SubSeq(v.s, 1, 1) = "-"
                    /\ IsDecimal(SubSeq(v.s, 2, Len(v.s)))
            THEN [exc |-> "none", val |-> 0 - DecimalVal(SubSeq(v.s, 2, Len(v.s)))]
            ELSE [exc |-> "ValueError", val |-> 0]

\* "%s" % x for a string or None
FormatS(v) == IF v.t = "none" THEN "None" ELSE v.s

\* x == 0 in Python: true of the number zero only
EqZero(v) == v.t = "int" /\ v.n = 0

----------------------------------------------------------------------------
(* Class constants *)

METRICS == <<
    <<"iis.uptime", "gauge", "ServiceUptime">>,
    <<"iis.net.bytes_sent", "rate", "TotalBytesSent">>,
    <<"iis.net.bytes_rcvd", "rate", "TotalBytesReceived">>,
    <<"iis.net.bytes_total", "rate", "TotalBytesTransferred">>,
    <<"iis.net.num_connections", "gauge", "CurrentConnections">>,
    <<"iis.net.files_sent", "rate", "TotalFilesSent">>,
    <<"iis.net.files_rcvd", "rate", "TotalFilesReceived">>,
    <<"iis.net.connection_attempts", "rate", "TotalConnectionAttemptsAllInstances">>,
    <<"iis.httpd_request_method.get", "rate", "TotalGetRequests">>,
    <<"iis.httpd_request_method.post", "rate", "TotalPostRequests">>,
    <<"iis.httpd_request_method.head", "rate", "TotalHeadRequests">>,
    <<"iis.httpd_request_method.put", "rate", "TotalPutRequests">>,
    <<"iis.httpd_request_method.delete", "rate", "TotalDeleteRequests">>,
    <<"iis.httpd_request_method.options", "rate", "TotalOptionsRequests">>,
    <<"iis.httpd_request_method.trace", "rate", "TotalTraceRequests">>,
    <<"iis.errors.not_found", "rate", "TotalNotFoundErrors">>,
    <<"iis.errors.locked", "rate", "TotalLockedErrors">>,
    <<"iis.users.anon", "rate", "TotalAnonymousUsers">>,
    <<"iis.users.nonanon", "rate", "TotalNonAnonymousUsers">>,
    <<"iis.requests.cgi", "rate", "TotalCGIRequests">>,
    <<"iis.requests.isapi", "rate", "TotalISAPIExtensionRequests">> >>

SERVICE_CHECK == "iis.site_up"

\* metrics_by_property as check builds it: property -> (metric, metric_type)
MetricsByProperty ==
    [p \in {METRICS[i][3] : i \in 1..Len(METRICS)} |->
        LET i == CHOOSE j \in 1..Len(METRICS) : METRICS[j][3] = p
        IN <<METRICS[i][1], METRICS[i][2]>>]

WMIMetric(name, value, tags) == [name |-> name, value |-> value, tags |-> tags]

\* Assignment to a field of a namedtuple instance: namedtuples are
\* immutable, the assignment raises AttributeError and changes nothing.
NamedTupleSetAttr(m, field, value) == [exc |-> "AttributeError", m |-> m]

----------------------------------------------------------------------------
(* Input domains *)

SiteNames == {"_Total", "site1", "site2"}

UptimeValues == {IntV(0), IntV(5), NoneV}

RequestValues == {StrV("10"), StrV("x")}

\* The order in which iteritems() yields the properties of a record
PropOrder == <<"Name", "ServiceUptime", "TotalGetRequests">>

Records ==
    {[p \in {"Name", "ServiceUptime", "TotalGetRequests"} |->
        CASE p = "Name" -> StrV(n)
          [] p = "ServiceUptime" -> u
          [] p = "TotalGetRequests" -> g] :
     n \in SiteNames, u \in UptimeValues, g \in RequestValues}

SeqsUpTo(S, n) == UNION {[1..k -> S] : k \in 0..n}

Batches == SeqsUpTo(Records, MaxBatch)

SitesChoices == {{"_Total"}, {"site1"}, {"site1", "site2"}, {"_Total", "site1"}}

TagsChoices == {<<>>, <<"env:prod">>}

NoInstance == [host |-> [present |-> FALSE, v |-> NoneV],
               username |-> [present |-> FALSE, v |-> NoneV],
               password |-> [present |-> FALSE, v |-> NoneV],
               tags |-> [present |-> FALSE, v |-> <<>>],
               sites |-> [present |-> FALSE, v |-> {}]]

----------------------------------------------------------------------------
(* __init__ and _get_wmi_conn *)

Hosts == {NoneV, StrV("a"), StrV("a:b")}
Users == {StrV("c"), StrV("b:c")}
Passwords == {StrV("d")}

Identities == [host : Hosts, user : Users, password : Passwords]

ConnKey(host, user, password) ==
    FormatS(host) \o ":" \o FormatS(user) \o ":" \o FormatS(password)

\* __init__: an empty connection cache
Constructed ==
    /\ wmi_conns = <<>>
    /\ opened = <<>>
    /\ requested = <<>>

\* Nothing has been called yet
NoOutputs ==
    /\ out_metrics = <<>>
    /\ warnings = <<>>
    /\ service_checks = <<>>
    /\ submissions = <<>>
    /\ steps = <<>>
    /\ exc = "none"

Init ==
    /\ pc = "idle"
    /\ Constructed
    /\ in_instance = NoInstance
    /\ in_batch = <<>>
    /\ in_sites = {}
    /\ in_tags = <<>>
    /\ in_metrics = <<>>
    /\ NoOutputs

_get_wmi_conn(host, user, password) ==
    LET key == ConnKey(host, user, password)
        id == [host |-> host, user |-> user, password |-> password]
        miss == key \notin DOMAIN wmi_conns
        conns == IF miss
                 THEN [k \in DOMAIN wmi_conns \cup {key} |->
                        IF k = key THEN Len(opened) + 1 ELSE wmi_conns[k]]
                 ELSE wmi_conns
    IN /\ Len(requested) < MaxConnCalls
       /\ wmi_conns' = conns
       /\ opened' = IF miss THEN Append(opened, id) ELSE opened
       /\ requested' = Append(requested, [id |-> id, handle |-> conns[key]])
       /\ UNCHANGED <<pc, in_instance, in_batch, in_sites, in_tags, in_metrics,
                      out_metrics, warnings, service_checks, submissions,
                      steps, exc>>

Next ==
    \E host \in Hosts, user \in Users, password \in Passwords :
        _get_wmi_conn(host, user, password)

Spec == Init /\ [][Next]_vars

----------------------------------------------------------------------------
(* C10 *)

RequestedIds == {requested[i].id : i \in DOMAIN requested}

FirstRequest(id) == CHOOSE i \in DOMAIN requested :
    /\ requested[i].id = id
    /\ \A j \in DOMAIN requested : requested[j].id = id => i <= j

\* C10: over any sequence of _get_wmi_conn calls a connection is opened at
\* most once per identity (host, username, password), every call returns
\* the handle created by the first call with its identity, and the cache
\* holds one entry per identity requested so far.
C10_OneConnectionPerIdentity ==
    /\ \A i, j \in DOMAIN opened : opened[i] = opened[j] => i = j
    /\ \A j \in DOMAIN requested :
         /\ requested[j].handle = requested[FirstRequest(requested[j].id)].handle
         /\ opened[requested[j].handle] = requested[j].id
    /\ Cardinality(DOMAIN wmi_conns) = Cardinality(RequestedIds)

----------------------------------------------------------------------------
(* _extract_metrics *)

\* ExtractProperty with a missing value read as zero instead of skipped
ExtractPropertyNoneAsZero(acc, prop, value, tags, sitename) ==
    LET f == Float(value)
    IN IF f.exc = "none" \/ f.exc = "TypeError"
       THEN [acc EXCEPT !.metrics =
                Append(@, WMIMetric(prop, f.val, tags \o <<sitename>>))]
       ELSE [acc EXCEPT !.warnings =
                Append(@, [kind |-> "non digit value", prop |-> prop])]

\* The body of the loop over a record's properties (lines 121-132)
ExtractProperty(acc, prop, value, tags, sitename) ==
    LET f == Float(value)
    IN IF f.exc = "none"
       THEN [acc EXCEPT !.metrics =
                Append(@, WMIMetric(prop, f.val, tags \o <<sitename>>))]
       ELSE IF f.exc = "ValueError"
       THEN [acc EXCEPT !.warnings =
                Append(@, [kind |-> "non digit value", prop |-> prop])]
       ELSE [acc EXCEPT !.warnings =
                Append(@, [kind |-> "missing property", prop |-> prop])]

RECURSIVE ExtractProperties(_, _, _, _, _)
ExtractProperties(acc, wmi_obj, k, tags, sitename) ==
    IF k > Len(PropOrder) THEN acc
    ELSE ExtractProperties(
            ExtractProperty(acc, PropOrder[k], wmi_obj[PropOrder[k]], tags, sitename),
            wmi_obj, k + 1, tags, sitename)

\* tags = list(tags) if tags else []: a new list with the same elements
CopyTags(tags) == IF tags # <<>> THEN tags ELSE <<>>

\* One iteration of the loop over the records (lines 108-132); st.tags is
\* the local variable `tags`, which lives across iterations.
ExtractRecord(st, wmi_obj, sites) ==
    LET copied == CopyTags(st.tags)
        sitename == wmi_obj["Name"].s
    IN IF sitename \notin sites
       THEN [st EXCEPT !.tags = copied]
       ELSE LET tags == IF sitename # "_Total"
                        THEN Append(copied, sitename) ELSE copied
                acc == ExtractProperties(
                          [metrics |-> st.metrics, warnings |-> st.warnings],
                          wmi_obj, 1, tags, sitename)
            IN [metrics |-> acc.metrics, warnings |-> acc.warnings, tags |-> tags]

RECURSIVE ExtractLoop(_, _, _, _)
ExtractLoop(st, wmi_sampler, k, sites) ==
    IF k > Len(wmi_sampler) THEN st
    ELSE ExtractLoop(ExtractRecord(st, wmi_sampler[k], sites), wmi_sampler, k + 1, sites)

\* The caller's list is only read: the loop rebinds `tags` to a copy
\* (line 109) before its single mutation (line 118).
_extract_metrics ==
    /\ pc = "ready"
    /\ LET st == ExtractLoop([metrics |-> <<>>, warnings |-> <<>>, tags |-> in_tags],
                             in_batch, 1, in_sites)
       IN /\ out_metrics' = st.metrics
          /\ warnings' = st.warnings
    /\ pc' = "done"
    /\ UNCHANGED <<wmi_conns, opened, requested, in_instance, in_batch,
                   in_sites, in_tags, in_metrics, service_checks, submissions,
                   steps, exc>>

InitExtract ==
    /\ pc = "ready"
    /\ Constructed
    /\ in_instance = NoInstance
    /\ in_batch \in Batches
    /\ in_sites \in SitesChoices
    /\ in_tags \in TagsChoices
    /\ in_metrics = <<>>
    /\ NoOutputs

SpecExtract == InitExtract /\ [][_extract_metrics]_vars

----------------------------------------------------------------------------
(* C2, C3 *)

SiteOf(wmi_obj) == wmi_obj["Name"].s

\* (record, property) positions of the batch whose record passes the filter
Pairs == {p \in (1..Len(in_batch)) \X (1..Len(PropOrder)) :
            SiteOf(in_batch[p[1]]) \in in_sites}

RawAt(p) == in_batch[p[1]][PropOrder[p[2]]]

Coercible(p) == Float(RawAt(p)).exc = "none"

Before(q, p) == q[1] < p[1] \/ (q[1] = p[1] /\ q[2] <= p[2])

\* position, in record order then property order, of p among the pairs of S
Rank(p, S) == Cardinality({q \in S : Before(q, p)})

GoodPairs == {p \in Pairs : Coercible(p)}
BadPairs == {p \in Pairs : ~Coercible(p)}

\* C2: _extract_metrics returns exactly one metric per (record, property)
\* pair whose record Name is in the site filter and whose value coerces to
\* a float, named after the property and carrying the coerced value, in
\* record order; every other pair of a filtered-in record yields no metric
\* and one warning, and records outside the filter yield nothing.
C2_ExtractExactlyCoercible ==
    pc = "done" =>
        /\ Len(out_metrics) = Cardinality(GoodPairs)
        /\ \A p \in GoodPairs :
             /\ out_metrics[Rank(p, GoodPairs)].name = PropOrder[p[2]]
             /\ out_metrics[Rank(p, GoodPairs)].value = Float(RawAt(p)).val
        /\ Len(warnings) = Cardinality(BadPairs)
        /\ \A p \in BadPairs : warnings[Rank(p, BadPairs)].prop = PropOrder[p[2]]

\* A filtered-out record, then a filtered-in one whose missing uptime is
\* skipped and whose later request counter "10" is still extracted as 10
C2_Witness ==
    /\ pc = "done"
    /\ Len(in_batch) = 2
    /\ SiteOf(in_batch[1]) \notin in_sites
    /\ SiteOf(in_batch[2]) \in in_sites
    /\ in_batch[2]["ServiceUptime"] = NoneV
    /\ in_batch[2]["TotalGetRequests"] = StrV("10")
    /\ Len(out_metrics) = 1
    /\ out_metrics[1].name = "TotalGetRequests"
    /\ out_metrics[1].value = 10
    /\ Len(warnings) = 2

ExpectedTags(site) ==
    IF site = "_Total" THEN in_tags \o <<site>> ELSE in_tags \o <<site, site>>

\* C3: the tags of every metric extracted from a record are the base tags
\* followed only by that record's own site name (once for "_Total", twice
\* otherwise), whatever records come before it in the batch.
C3_TagsFreshPerRecord ==
    pc = "done" =>
        \A p \in GoodPairs :
            Rank(p, GoodPairs) <= Len(out_metrics) =>
                out_metrics[Rank(p, GoodPairs)].tags = ExpectedTags(SiteOf(in_batch[p[1]]))

----------------------------------------------------------------------------
(* _submit_events *)

Perms(S) == {f \in [1..Cardinality(S) -> S] : \A i, j \in DOMAIN f : f[i] = f[j] => i = j}

ServiceCheck(status, site) ==
    [name |-> SERVICE_CHECK, status |-> status, tags |-> <<"site:" \o site>>]

\* RemoveSite that leaves the working set as it was
RemoveSiteKeep(expected_sites, sitename) ==
    IF sitename \in expected_sites
    THEN [exc |-> "none", set |-> expected_sites]
    ELSE [exc |-> "KeyError", set |-> expected_sites]

\* expected_sites.remove(sitename): set.remove raises KeyError when the
\* element is absent
RemoveSite(expected_sites, sitename) ==
    IF sitename \in expected_sites
    THEN [exc |-> "none", set |-> expected_sites \ {sitename}]
    ELSE [exc |-> "KeyError", set |-> expected_sites]

\* One iteration of the loop over the records (lines 138-148); st.status is
\* the local variable `status`, "unbound" until its first assignment.
SubmitEventsRecord(st, wmi_obj) ==
    LET sitename == SiteOf(wmi_obj)
        uptime == wmi_obj["ServiceUptime"]
        status == IF EqZero(uptime)
                  THEN (IF EqZero(uptime) THEN "CRITICAL" ELSE "OK")
                  ELSE st.status
        removed == RemoveSite(st.expected_sites, sitename)
    IN IF sitename = "_Total" THEN st
       ELSE IF status = "unbound"
       THEN [st EXCEPT !.exc = "UnboundLocalError"]
       ELSE [status |-> status,
             checks |-> Append(st.checks, ServiceCheck(status, sitename)),
             expected_sites |-> removed.set,
             exc |-> removed.exc]

RECURSIVE SubmitEventsLoop(_, _, _)
SubmitEventsLoop(st, wmi_sampler, k) ==
    IF k > Len(wmi_sampler) \/ st.exc # "none" THEN st
    ELSE SubmitEventsLoop(SubmitEventsRecord(st, wmi_sampler[k]), wmi_sampler, k + 1)

\* The whole of _submit_events; `order` is the order in which the final
\* loop iterates the set expected_sites.
SubmitEvents(wmi_sampler, sites, order) ==
    LET st == SubmitEventsLoop([status |-> "unbound", checks |-> <<>>,
                                expected_sites |-> sites, exc |-> "none"],
                               wmi_sampler, 1)
        left == SelectSeq(order, LAMBDA s : s \in st.expected_sites)
    IN IF st.exc # "none" THEN [checks |-> st.checks, exc |-> st.exc]
       ELSE [checks |-> st.checks \o [i \in 1..Len(left) |-> ServiceCheck("CRITICAL", left[i])],
             exc |-> "none"]

_submit_events ==
    /\ pc = "ready"
    /\ \E order \in Perms(in_sites) :
         LET r == SubmitEvents(in_batch, in_sites, order)
         IN /\ service_checks' = r.checks
            /\ exc' = r.exc
    /\ pc' = "done"
    /\ UNCHANGED <<wmi_conns, opened, requested, in_instance, in_batch,
                   in_sites, in_tags, in_metrics, out_metrics, warnings,
                   submissions, steps>>

InitEvents ==
    /\ pc = "ready"
    /\ Constructed
    /\ in_instance = NoInstance
    /\ in_batch \in Batches
    /\ in_sites \in SitesChoices
    /\ in_tags = <<>>
    /\ in_metrics = <<>>
    /\ NoOutputs

SpecEvents == InitEvents /\ [][_submit_events]_vars

----------------------------------------------------------------------------
(* C4, C5, C6, C9 *)

SiteRecords == {i \in DOMAIN in_batch : SiteOf(in_batch[i]) # "_Total"}

Observed(site) == \E i \in DOMAIN in_batch : SiteOf(in_batch[i]) = site

ChecksFor(site) == {k \in DOMAIN service_checks :
                      service_checks[k].tags = <<"site:" \o site>>}

\* every sampled site was requested, and sampled once
AllRequestedOnce ==
    /\ \A i \in SiteRecords : SiteOf(in_batch[i]) \in in_sites
    /\ \A i, j \in SiteRecords : SiteOf(in_batch[i]) = SiteOf(in_batch[j]) => i = j

\* every sampled site reports an uptime of zero
AllDown == \A i \in SiteRecords : EqZero(in_batch[i]["ServiceUptime"])

OwnStatus(wmi_obj) == IF EqZero(wmi_obj["ServiceUptime"]) THEN "CRITICAL" ELSE "OK"

\* C4: every sampled record whose Name is not "_Total" gets exactly one
\* iis.site_up service check tagged site:<Name>, CRITICAL when its own
\* ServiceUptime is zero and OK otherwise, whatever was processed before it
\* (stated for batches whose sites were all requested and sampled once).
C4_StatusFromOwnUptime ==
    (pc = "done" /\ AllRequestedOnce) =>
        \A i \in SiteRecords :
            \E k \in DOMAIN service_checks :
                /\ ChecksFor(SiteOf(in_batch[i])) = {k}
                /\ service_checks[k].name = SERVICE_CHECK
                /\ service_checks[k].status = OwnStatus(in_batch[i])

\* C5: once _submit_events has processed every record, each expected site
\* other than "_Total" that no record names has exactly one iis.site_up
\* check, CRITICAL and tagged site:<name>, and each expected site that a
\* record names has only the checks of its records, none from the final
\* reconciliation.
C5_UnobservedExpectedCritical ==
    (pc = "done" /\ exc = "none") =>
        \A site \in in_sites \ {"_Total"} :
            IF Observed(site)
            THEN Cardinality(ChecksFor(site)) =
                    Cardinality({i \in DOMAIN in_batch : SiteOf(in_batch[i]) = site})
            ELSE /\ Cardinality(ChecksFor(site)) = 1
                 /\ \A k \in ChecksFor(site) :
                      service_checks[k] = ServiceCheck("CRITICAL", site)

\* site1 is sampled (down) and site2 is expected but absent from the sample
C5_Witness ==
    /\ pc = "done"
    /\ exc = "none"
    /\ in_sites = {"site1", "site2"}
    /\ Observed("site1")
    /\ ~Observed("site2")
    /\ Cardinality(ChecksFor("site1")) = 1
    /\ Cardinality(ChecksFor("site2")) = 1

\* C6: no iis.site_up service check is ever tagged site:_Total.
C6_TotalNeverReported == ChecksFor("_Total") = {}

\* C9: a sampled site that was not requested, or that is sampled twice,
\* does not make the removal raise, and the expected sites missing from the
\* sample still get their CRITICAL check (stated for batches whose sampled
\* sites all report an uptime of zero).
C9_RemovalOfAbsentTolerated ==
    (pc = "done" /\ AllDown /\ ~AllRequestedOnce) =>
        /\ exc = "none"
        /\ \A site \in in_sites \ {"_Total"} :
             ~Observed(site) => ChecksFor(site) # {}

----------------------------------------------------------------------------
(* _submit_metrics *)

\* self.getattr(mtype): the submission method named by the metric type
GetAttr(mtype) == mtype

\* The body of the loop over the metrics (lines 156-165)
SubmitMetric(st, m, metrics_by_property) ==
    LET renamed ==
            IF m.name = "TotalBytesTransfered"
            THEN NamedTupleSetAttr(m, "name", "TotalBytesTransferred")
            ELSE IF m.name = "TotalConnectionAttemptsallinstances"
            THEN NamedTupleSetAttr(m, "name", "TotalConnectionAttemptsAllinstances")
            ELSE [exc |-> "none", m |-> m]
        skip == /\ m.name # "TotalBytesTransfered"
                /\ m.name # "TotalConnectionAttemptsallinstances"
                /\ m.name \notin DOMAIN metrics_by_property
    IN IF renamed.exc # "none" THEN [st EXCEPT !.exc = renamed.exc]
       ELSE IF skip THEN st
       ELSE IF renamed.m.name \notin DOMAIN metrics_by_property
       THEN [st EXCEPT !.exc = "KeyError"]
       ELSE LET metric == metrics_by_property[renamed.m.name][1]
                mtype == metrics_by_property[renamed.m.name][2]
            IN [st EXCEPT !.calls =
                    Append(@, [kind |-> GetAttr(mtype), name |-> metric,
                               value |-> renamed.m.value, tags |-> renamed.m.tags])]

RECURSIVE SubmitMetricsLoop(_, _, _, _)
SubmitMetricsLoop(st, wmi_metrics, k, metrics_by_property) ==
    IF k > Len(wmi_metrics) \/ st.exc # "none" THEN st
    ELSE SubmitMetricsLoop(SubmitMetric(st, wmi_metrics[k], metrics_by_property),
                           wmi_metrics, k + 1, metrics_by_property)

SubmitMetrics(wmi_metrics, metrics_by_property) ==
    SubmitMetricsLoop([calls |-> <<>>, exc |-> "none"], wmi_metrics, 1,
                      metrics_by_property)

_submit_metrics ==
    /\ pc = "ready"
    /\ LET st == SubmitMetrics(in_metrics, MetricsByProperty)
       IN /\ submissions' = st.calls
          /\ exc' = st.exc
    /\ pc' = "done"
    /\ UNCHANGED <<wmi_conns, opened, requested, in_instance, in_batch,
                   in_sites, in_tags, in_metrics, out_metrics, warnings,
                   service_checks, steps>>

MetricNames == {"ServiceUptime", "TotalGetRequests", "Name",
                "TotalBytesTransfered", "TotalConnectionAttemptsallinstances"}

MetricChoices == {WMIMetric(n, v, <<"site1", "site1">>) :
                    n \in MetricNames, v \in {0, 5}}

InitMetrics ==
    /\ pc = "ready"
    /\ Constructed
    /\ in_instance = NoInstance
    /\ in_batch = <<>>
    /\ in_sites = {}
    /\ in_tags = <<>>
    /\ in_metrics \in SeqsUpTo(MetricChoices, MaxMetrics)
    /\ NoOutputs

SpecMetrics == InitMetrics /\ [][_submit_metrics]_vars

----------------------------------------------------------------------------
(* C7, C8 *)

\* the catalog key a counter name stands for
Canonical(name) ==
    CASE name = "TotalBytesTransfered" -> "TotalBytesTransferred"
      [] name = "TotalConnectionAttemptsallinstances" -> "TotalConnectionAttemptsAllInstances"
      [] OTHER -> name

Submission(m) ==
    [kind |-> MetricsByProperty[Canonical(m.name)][2],
     name |-> MetricsByProperty[Canonical(m.name)][1],
     value |-> m.value, tags |-> m.tags]

\* C7: a metric named with one of the two misspelled aliases is submitted,
\* without raising, as iis.net.bytes_total / iis.net.connection_attempts
\* (rate), with its value and tags unchanged.
C7_AliasSubmittedCanonical ==
    pc = "done" =>
        \A k \in DOMAIN in_metrics :
            in_metrics[k].name \in {"TotalBytesTransfered",
                                    "TotalConnectionAttemptsallinstances"} =>
                /\ exc = "none"
                /\ \E c \in DOMAIN submissions :
                     /\ submissions[c] = Submission(in_metrics[k])
                     /\ submissions[c].kind = "rate"
                     /\ submissions[c].name \in {"iis.net.bytes_total",
                                                  "iis.net.connection_attempts"}

Catalogued == SelectSeq(in_metrics,
                        LAMBDA m : Canonical(m.name) \in DOMAIN MetricsByProperty)

\* C8: the submission calls are exactly the metrics whose alias-corrected
\* name has a catalog entry, in extraction order, one call each with the
\* entry's kind and output name and the metric's value and tags; the other
\* metrics are dropped without raising.
C8_SubmissionsAreCatalogued ==
    pc = "done" =>
        /\ exc = "none"
        /\ submissions = [k \in 1..Len(Catalogued) |-> Submission(Catalogued[k])]

----------------------------------------------------------------------------
(* check *)

\* instance.get(key, default)
Get(field, default) == IF field.present THEN field.v ELSE default

\* str.format: a named replacement field is looked up among the keyword
\* arguments and raises KeyError when it is not one of them
StrFormat(fields, kwargs) ==
    IF \E f \in fields : f \notin kwargs
    THEN [exc |-> "KeyError"] ELSE [exc |-> "none"]

\* Binding positional arguments to a method's parameters (self excluded):
\* a parameter without default that gets no argument raises TypeError
BindArgs(params, nargs) ==
    IF nargs # Len(params) THEN [exc |-> "TypeError"] ELSE [exc |-> "none"]

\* self._get_wmi_sampler(...) followed by wmi_sampler.sample(): the handle
\* then iterates the sampled batch
GetWmiSampler(batch) == [steps |-> <<"_get_wmi_sampler", "sample">>, records |-> batch]

CheckResult(s, e, m, w, c, u) ==
    [steps |-> s, exc |-> e, metrics |-> m, warnings |-> w, checks |-> c,
     calls |-> u]

\* The whole of check (lines 64-92); `order` as in SubmitEvents.
Check(instance, batch, order) ==
    LET host == Get(instance.host, NoneV)
        user == Get(instance.username, NoneV)
        password == Get(instance.password, NoneV)
        instance_tags == Get(instance.tags, <<>>)
        sites == Get(instance.sites, {"_Total"})
        instance_key == StrFormat({"host", "namespace", "class"}, {})
        wmi_sampler == GetWmiSampler(batch)
        bound == BindArgs(<<"wmi_sampler", "sites", "tags">>, 2)
        ex == ExtractLoop([metrics |-> <<>>, warnings |-> <<>>, tags |-> instance_tags],
                          wmi_sampler.records, 1, sites)
        ev == SubmitEvents(wmi_sampler.records, sites, order)
        sm == SubmitMetrics(ex.metrics, MetricsByProperty)
    IN IF instance_key.exc # "none"
       THEN CheckResult(<<>>, instance_key.exc, <<>>, <<>>, <<>>, <<>>)
       ELSE IF bound.exc # "none"
       THEN CheckResult(wmi_sampler.steps, bound.exc, <<>>, <<>>, <<>>, <<>>)
       ELSE IF ev.exc # "none"
       THEN CheckResult(wmi_sampler.steps \o <<"_extract_metrics", "_submit_events">>,
                        ev.exc, ex.metrics, ex.warnings, ev.checks, <<>>)
       ELSE CheckResult(wmi_sampler.steps \o <<"_extract_metrics", "_submit_events",
                                               "_submit_metrics">>,
                        sm.exc, ex.metrics, ex.warnings, ev.checks, sm.calls)

check ==
    /\ pc = "ready"
    /\ \E order \in Perms(SiteNames) :
         LET r == Check(in_instance, in_batch, order)
         IN /\ steps' = r.steps
            /\ exc' = r.exc
            /\ out_metrics' = r.metrics
            /\ warnings' = r.warnings
            /\ service_checks' = r.checks
            /\ submissions' = r.calls
    /\ pc' = "done"
    /\ UNCHANGED <<wmi_conns, opened, requested, in_instance, in_batch,
                   in_sites, in_tags, in_metrics>>

Opt(S, absent) == {[present |-> FALSE, v |-> absent]} \cup {[present |-> TRUE, v |-> x] : x \in S}

Instances ==
    [host : Opt({StrV("a")}, NoneV),
     username : Opt({StrV("c")}, NoneV),
     password : Opt({StrV("d")}, NoneV),
     tags : Opt({<<"env:prod">>}, <<>>),
     sites : Opt({{"site1"}, {"_Total", "site1"}}, {})]

InitCheck ==
    /\ pc = "ready"
    /\ Constructed
    /\ in_instance \in Instances
    /\ in_batch \in SeqsUpTo(Records, MaxCheckBatch)
    /\ in_sites = {}
    /\ in_tags = <<>>
    /\ in_metrics = <<>>
    /\ NoOutputs

SpecCheck == InitCheck /\ [][check]_vars

\* C1: for every instance configuration and every sampled batch, one
\* check cycle runs to completion without raising, having obtained the
\* sampler, sampled once, then extracted and checked availability, and
\* finally submitted the metrics, in this order.
C1_CheckRunsInOrder ==
    pc = "done" =>
        /\ exc = "none"
        /\ steps = <<"_get_wmi_sampler", "sample", "_extract_metrics",
                     "_submit_events", "_submit_metrics">>

====
